---- MODULE Spec2Model ----
(***************************************************************************)
(* rusty_pom: a Pomodoro countdown that persists the remaining seconds of  *)
(* an interrupted run in the state file and resumes from it (src/main.rs). *)
(*                                                                         *)
(* u64 quantities (SavedState.seconds_remaining, Duration seconds) are     *)
(* kept as canonical decimal digit sequences, most significant digit       *)
(* first, so that the full 64-bit range is available; i32 quantities are   *)
(* integers.  Instants are counted in clock steps, Res steps per second.   *)
(***************************************************************************)
EXTENDS Integers, Sequences, FiniteSets, TLC

VARIABLES
    stateFile,       \* the file .rusty_pom: [exists, content]
    argv,            \* the command line: [d: the text of -d if given, r: -r given]
    arg_restart,     \* PomApp.arg_restart
    arg_duration,    \* PomApp.arg_duration (i32)
    irq,             \* the AtomicBool shared with the Ctrl-C handler
    saved_state,     \* last_state.seconds_remaining (u64, digits)
    timer_duration,  \* run_timer's timer_duration in whole seconds (u64, digits)
    was_interrupted, \* run_timer's was_interrupted
    was_continued,   \* run_timer's was_continued
    bar,             \* position of the progress bar
    elapsed,         \* clock steps since `start` at the last clock reading
    pc,              \* position of the process
    exit_code,       \* exit status of the process once it has ended
    panic_msg,       \* diagnostic of the panic that ended the process
    notifications,   \* toasts shown by this process
    writes,          \* completed writes of the state file by this process
    save_failed,     \* a save_state call of this process failed
    runs,            \* processes started so far
    prev_run,        \* history: how the previous process ended
    ticks,           \* history: passes of the loop body by this process (line 95)
    irq_at_start,    \* history: the flag when `start` was taken (line 79)
    ticks_after_irq, \* history: sleeps of this process begun with the flag set
    flag_reads       \* history: loads of the flag by this process (line 96)

vars == <<stateFile, argv, arg_restart, arg_duration, irq, saved_state, timer_duration,
          was_interrupted, was_continued, bar, elapsed, pc, exit_code, panic_msg,
          notifications, writes, save_failed, runs,
          prev_run, ticks, irq_at_start, ticks_after_irq, flag_reads>>

----------------------------------------------------------------------------
(* Bounds of the model. *)

\* clock steps per second (the clock of the code has 10^9)
Res == 2
\* largest number of clock steps by which a sleep, or the code between two
\* clock readings, overshoots
MaxOvershoot == 1
\* largest literal-seconds duration requested in the runs that are ticked
MaxSecs == 3
\* processes started one after the other on the same state file
MaxRuns == 2

----------------------------------------------------------------------------
(* Program constants. *)

SecsPerMinute == 60
PanicExitCode == 101

I32Max == 2147483647
I32Min == (-2147483647) - 1

\* u64::MAX = 18446744073709551615
U64Max == <<1,8,4,4,6,7,4,4,0,7,3,7,0,9,5,5,1,6,1,5>>

----------------------------------------------------------------------------
(* u64 values as decimal digit sequences. *)

Zero == <<0>>

RECURSIVE NatToBig(_)
NatToBig(n) == IF n < 10 THEN <<n>> ELSE NatToBig(n \div 10) \o <<n % 10>>

RECURSIVE BigToNat(_)
BigToNat(b) ==
    IF Len(b) = 1 THEN b[1]
    ELSE BigToNat(SubSeq(b, 1, Len(b) - 1)) * 10 + b[Len(b)]

RECURSIVE LexLess(_, _)
LexLess(a, b) ==
    /\ a # <<>>
    /\ \/ a[1] < b[1]
       \/ a[1] = b[1] /\ LexLess(Tail(a), Tail(b))

BigLess(a, b) ==
    \/ Len(a) < Len(b)
    \/ Len(a) = Len(b) /\ LexLess(a, b)

BigLeq(a, b) == a = b \/ BigLess(a, b)

RECURSIVE MulDigits(_, _, _)
MulDigits(b, m, carry) ==
    IF b = <<>> THEN (IF carry = 0 THEN <<>> ELSE NatToBig(carry))
    ELSE LET p == b[Len(b)] * m + carry IN
         MulDigits(SubSeq(b, 1, Len(b) - 1), m, p \div 10) \o <<p % 10>>

BigMul(b, m) == IF b = Zero \/ m = 0 THEN Zero ELSE MulDigits(b, m, 0)

----------------------------------------------------------------------------
(* The state file: serde_json text of SavedState, as a sequence of tokens. *)

DigitChars == <<"0", "1", "2", "3", "4", "5", "6", "7", "8", "9">>

DigitChar(d) == DigitChars[d + 1]

IsDigitChar(c) == \E d \in 0..9 : DigitChars[d + 1] = c

DigitVal(c) == CHOOSE d \in 0..9 : DigitChars[d + 1] = c

\* serde_json::to_string of a u64: its decimal digits
FormatU64(b) == [i \in 1..Len(b) |-> DigitChar(b[i])]

\* serde_json::to_string(&SavedState { seconds_remaining })
ToJson(secs) == <<"{", "\"seconds_remaining\"", ":">> \o FormatU64(secs) \o <<"}">>

\* serde_json reading a u64: digits only, no leading zero, at most u64::MAX
ParseU64(s) ==
    LET wellFormed == /\ Len(s) >= 1
                      /\ \A i \in 1..Len(s) : IsDigitChar(s[i])
                      /\ (Len(s) = 1 \/ s[1] # "0")
        digits == [i \in 1..Len(s) |-> DigitVal(s[i])]
    IN  IF wellFormed /\ BigLeq(digits, U64Max)
        THEN [ok |-> TRUE, value |-> digits]
        ELSE [ok |-> FALSE, value |-> Zero]

\* the token at position i of a text, "" past its end
Tok(s, i) == IF i >= 1 /\ i <= Len(s) THEN s[i] ELSE ""

\* the JSON strings that occur in the texts of the model
StringTokens == {"\"seconds_remaining\"", "\"x\""}

\* the position after the digits that start at i
RECURSIVE DigitsEnd(_, _)
DigitsEnd(s, i) == IF IsDigitChar(Tok(s, i)) THEN DigitsEnd(s, i + 1) ELSE i

\* the position after the JSON number that starts at i, 0 when there is none:
\* [-] (0 | digits) [. digits] [(e|E) [+|-] digits]
NumberEnd(s, i) ==
    LET j == IF Tok(s, i) = "-" THEN i + 1 ELSE i
        k == IF Tok(s, j) = "0" THEN j + 1 ELSE DigitsEnd(s, j)
        f == IF Tok(s, k) # "." THEN k
             ELSE IF DigitsEnd(s, k + 1) > k + 1 THEN DigitsEnd(s, k + 1) ELSE 0
        g == IF Tok(s, f + 1) \in {"+", "-"} THEN f + 2 ELSE f + 1
    IN  IF k = j \/ f = 0 THEN 0
        ELSE IF Tok(s, f) \notin {"e", "E"} THEN f
        ELSE IF DigitsEnd(s, g) > g THEN DigitsEnd(s, g) ELSE 0

\* the position after the JSON value that starts at i, 0 when there is none
\* (serde's IgnoredAny, for the value of a field the struct does not have)
RECURSIVE SkipValue(_, _)
RECURSIVE SkipElements(_, _)
RECURSIVE SkipMembers(_, _)
SkipValue(s, i) ==
    LET t == Tok(s, i) IN
    IF t \in StringTokens \cup {"true", "false", "null"} THEN i + 1
    ELSE IF t = "[" THEN (IF Tok(s, i + 1) = "]" THEN i + 2 ELSE SkipElements(s, i + 1))
    ELSE IF t = "{" THEN (IF Tok(s, i + 1) = "}" THEN i + 2 ELSE SkipMembers(s, i + 1))
    ELSE NumberEnd(s, i)

SkipElements(s, i) ==
    LET v == SkipValue(s, i) IN
    IF v = 0 THEN 0
    ELSE IF Tok(s, v) = "," THEN SkipElements(s, v + 1)
    ELSE IF Tok(s, v) = "]" THEN v + 1
    ELSE 0

SkipMembers(s, i) ==
    LET v == IF Tok(s, i) \in StringTokens /\ Tok(s, i + 1) = ":"
             THEN SkipValue(s, i + 2) ELSE 0
    IN  IF v = 0 THEN 0
        ELSE IF Tok(s, v) = "," THEN SkipMembers(s, v + 1)
        ELSE IF Tok(s, v) = "}" THEN v + 1
        ELSE 0

\* the u64 that starts at i: a JSON number without sign, fraction or exponent
U64At(s, i) ==
    LET k == IF Tok(s, i) = "0" THEN i + 1 ELSE DigitsEnd(s, i)
        u == ParseU64(SubSeq(s, i, k - 1))
    IN  IF k > i /\ NumberEnd(s, i) = k /\ u.ok
        THEN [ok |-> TRUE, value |-> u.value, next |-> k]
        ELSE [ok |-> FALSE, value |-> Zero, next |-> 0]

\* the derived Deserialize of SavedState on an object whose members start at
\* i: other fields are skipped, the field must occur exactly once, and
\* nothing may follow the object
RECURSIVE StructFromMap(_, _, _, _)
StructFromMap(s, i, found, value) ==
    LET isField == Tok(s, i) = "\"seconds_remaining\""
        u == U64At(s, i + 2)
        next == IF Tok(s, i) \notin StringTokens \/ Tok(s, i + 1) # ":" THEN 0
                ELSE IF isField THEN (IF found \/ ~u.ok THEN 0 ELSE u.next)
                ELSE SkipValue(s, i + 2)
        found2 == found \/ isField
        value2 == IF isField THEN u.value ELSE value
    IN  IF next = 0 THEN [ok |-> FALSE, value |-> Zero]
        ELSE IF Tok(s, next) = "," THEN StructFromMap(s, next + 1, found2, value2)
        ELSE IF Tok(s, next) = "}" /\ next = Len(s) /\ found2
             THEN [ok |-> TRUE, value |-> value2]
        ELSE [ok |-> FALSE, value |-> Zero]

\* the derived Deserialize of SavedState on an array: exactly one element
StructFromSeq(s) ==
    LET u == U64At(s, 2) IN
    IF u.ok /\ Tok(s, u.next) = "]" /\ u.next = Len(s)
    THEN [ok |-> TRUE, value |-> u.value]
    ELSE [ok |-> FALSE, value |-> Zero]

\* serde_json::from_reader::<SavedState>
FromJson(content) ==
    IF Tok(content, 1) = "{" /\ Tok(content, 2) # "}"
    THEN StructFromMap(content, 2, FALSE, Zero)
    ELSE IF Tok(content, 1) = "["
    THEN StructFromSeq(content)
    ELSE [ok |-> FALSE, value |-> Zero]

NoFile == [exists |-> FALSE, content |-> <<>>]

FileWith(content) == [exists |-> TRUE, content |-> content]

----------------------------------------------------------------------------
(* Integer conversions of the duration decision. *)

\* -self.arg_duration on an i32: with overflow checks the negation of
\* i32::MIN panics, without them it wraps to i32::MIN
Neg32(x, overflow_checks) ==
    IF x = I32Min
    THEN [panic |-> overflow_checks, value |-> I32Min]
    ELSE [panic |-> FALSE, value |-> 0 - x]

\* u64::try_from(i32)
TryFromU64(x) ==
    IF x >= 0 THEN [ok |-> TRUE, value |-> NatToBig(x)]
    ELSE [ok |-> FALSE, value |-> Zero]

\* a u64 product; a product beyond u64::MAX is an arithmetic overflow
MulU64(b, m) ==
    LET p == BigMul(b, m) IN [overflow |-> ~BigLeq(p, U64Max), value |-> p]

\* variant: the product is formed in i32 before the conversion
MinutesToSecs_I32(minutes) ==
    IF minutes > I32Max \div SecsPerMinute
    THEN [ok |-> FALSE, secs |-> Zero, msg |-> "attempt to multiply with overflow"]
    ELSE [ok |-> TRUE, secs |-> NatToBig(minutes * SecsPerMinute), msg |-> ""]

\* the duration in minutes as seconds (line 64)
MinutesToSecs(minutes) ==
    LET u == TryFromU64(minutes)
        p == MulU64(u.value, SecsPerMinute)
    IN  IF ~u.ok THEN [ok |-> FALSE, secs |-> Zero, msg |-> "unwrap on Err: TryFromIntError"]
        ELSE IF p.overflow THEN [ok |-> FALSE, secs |-> Zero, msg |-> "attempt to multiply with overflow"]
        ELSE [ok |-> TRUE, secs |-> p.value, msg |-> ""]

\* the magnitude of a non-positive duration as seconds (line 66)
LiteralSecs(arg, overflow_checks) ==
    LET n == Neg32(arg, overflow_checks)
        u == TryFromU64(n.value)
    IN  IF n.panic THEN [ok |-> FALSE, secs |-> Zero, msg |-> "attempt to negate with overflow"]
        ELSE IF ~u.ok THEN [ok |-> FALSE, secs |-> Zero, msg |-> "unwrap on Err: TryFromIntError"]
        ELSE [ok |-> TRUE, secs |-> u.value, msg |-> ""]

\* variant: the negation of the restart flag is dropped
Resumes_NoNegation(saved, restart) == BigLess(Zero, saved) /\ restart

\* variant: the restart flag is not consulted
Resumes_IgnoresRestart(saved, restart) == BigLess(Zero, saved)

\* variant: a saved value of 0 is resumed too
Resumes_ZeroResumable(saved, restart) == ~restart

\* the condition of the resume branch (line 59)
Resumes(saved, restart) == BigLess(Zero, saved) /\ ~restart

\* the duration decision of run_timer (lines 59-67)
SelectDuration(saved, restart, arg, overflow_checks) ==
    IF Resumes(saved, restart)
    THEN [ok |-> TRUE, secs |-> saved, continued |-> TRUE, msg |-> ""]
    ELSE LET r == IF arg > 0 THEN MinutesToSecs(arg)
                  ELSE LiteralSecs(arg, overflow_checks)
         IN  [ok |-> r.ok, secs |-> r.secs, continued |-> FALSE, msg |-> r.msg]

\* Duration::as_secs of a duration held in clock steps
AsSecs(steps) == steps \div Res

\* Duration::from_secs in clock steps
FromSecs(secs) == BigToNat(secs) * Res

----------------------------------------------------------------------------
(* The command line. *)

RECURSIVE StripZeros(_)
StripZeros(d) == IF Len(d) > 1 /\ d[1] = 0 THEN StripZeros(Tail(d)) ELSE d

\* str::parse::<i32>, line 190: an optional sign, then decimal digits only,
\* within the i32 range
ParseI32(s) ==
    LET signed == Len(s) >= 1 /\ s[1] \in {"+", "-"}
        neg == Len(s) >= 1 /\ s[1] = "-"
        body == IF signed THEN Tail(s) ELSE s
        wellFormed == Len(body) >= 1 /\ \A i \in 1..Len(body) : IsDigitChar(body[i])
        mag == StripZeros([i \in 1..Len(body) |-> DigitVal(body[i])])
        minMag == <<2, 1, 4, 7, 4, 8, 3, 6, 4, 8>>
    IN  IF ~wellFormed THEN [ok |-> FALSE, value |-> 0]
        ELSE IF neg /\ mag = minMag THEN [ok |-> TRUE, value |-> I32Min]
        ELSE IF BigLeq(mag, NatToBig(I32Max))
        THEN [ok |-> TRUE, value |-> IF neg THEN 0 - BigToNat(mag) ELSE BigToNat(mag)]
        ELSE [ok |-> FALSE, value |-> 0]

\* value_of("duration").unwrap_or("25"), lines 187-189
DurationText(args) == IF args.d = <<>> THEN <<"2", "5">> ELSE args.d[1]

----------------------------------------------------------------------------
(* Inputs. *)

NotExited == 0 - 1

\* the decimal text of an integer above i32::MIN
I32Text(n) ==
    IF n < 0 THEN <<"-">> \o FormatU64(NatToBig(0 - n)) ELSE FormatU64(NatToBig(n))

\* a command line with -d `text`, and -r when `restart`
WithDuration(text, restart) == [d |-> <<text>>, r |-> restart]

\* a command line without -d
WithoutDuration(restart) == [d |-> <<>>, r |-> restart]

\* state files of the ticked runs: absent, a saved record in one of the forms
\* the reader accepts, or damaged text
SmallFiles ==
    {NoFile,
     FileWith(<<>>),
     FileWith(<<"{", "\"seconds_remaining\"", ":", "x", "}">>),
     FileWith(<<"{", "\"x\"", ":", "1", ",", "\"seconds_remaining\"", ":", "2", "}">>),
     FileWith(<<"[", "1", "]">>)}
        \cup {FileWith(ToJson(NatToBig(n))) : n \in 0..MaxSecs}

\* -d values of the ticked runs: literal seconds
SmallArgs == (0 - MaxSecs)..0

\* command lines of the ticked runs
SmallArgv ==
    {WithDuration(I32Text(n), r) : n \in SmallArgs, r \in BOOLEAN}
        \cup {WithDuration(<<"x">>, FALSE)}

\* state files of the duration decision, up to the ends of the u64 range
WideSaved ==
    {Zero, NatToBig(1), NatToBig(59), NatToBig(1490), NatToBig(1500), NatToBig(I32Max), U64Max}

WideFiles ==
    {NoFile,
     FileWith(<<>>),
     FileWith(<<"{", "\"seconds_remaining\"", ":", "-", "1", "}">>),
     FileWith(<<"{", "\"seconds_remaining\"", ":", "0", "1", "}">>),
     FileWith(<<"{", "\"seconds_remaining\"", ":", "5", ".", "0", "}">>),
     FileWith(<<"{", "\"seconds_remaining\"", ":", "5", ",", "\"seconds_remaining\"", ":", "5", "}">>),
     FileWith(<<"{", "\"seconds_remaining\"", ":", "5", "}", "}">>),
     FileWith(<<"{", "\"x\"", ":", "1", "}">>),
     FileWith(<<"{", "}">>),
     FileWith(<<"[", "]">>),
     FileWith(<<"[", "5", ",", "6", "]">>),
     FileWith(<<"{", "\"seconds_remaining\"", ":", "5", ",", "\"x\"", ":", "1", "}">>),
     FileWith(<<"{", "\"x\"", ":", "[", "-", "1", ".", "5", "e", "2", ",", "null", "]", ",",
                "\"seconds_remaining\"", ":", "5", "}">>),
     FileWith(<<"[", "5", "]">>),
     FileWith(<<"{", "\"seconds_remaining\"", ":">> \o FormatU64(SubSeq(U64Max, 1, 19) \o <<6>>) \o <<"}">>)}
        \cup {FileWith(ToJson(b)) : b \in WideSaved}

\* -d values of the duration decision, up to the ends of the i32 range
WideArgs ==
    {I32Min + 1, 0 - 1500, 0 - 1, 0, 1, 25, 35791394, 35791395, I32Max}

\* command lines of the duration decision: the values above, i32::MIN, no -d
\* at all, other spellings of a number, and texts that are no i32
WideArgv ==
    {WithDuration(I32Text(n), r) : n \in WideArgs, r \in BOOLEAN}
        \cup {WithoutDuration(r) : r \in BOOLEAN}
        \cup {WithDuration(t, r) :
                t \in {<<"-", "2", "1", "4", "7", "4", "8", "3", "6", "4", "8">>,
                       <<"2", "1", "4", "7", "4", "8", "3", "6", "4", "8">>,
                       <<"-", "2", "1", "4", "7", "4", "8", "3", "6", "4", "9">>,
                       <<"+", "5">>, <<"0", "0", "7">>, <<"-", "0">>,
                       <<>>, <<"-">>, <<"x">>, <<"1", ".", "5">>},
                r \in BOOLEAN}

----------------------------------------------------------------------------
(* The process. *)

\* a process is started with the command line `args` on the state file `file`
ProcessStart(file, args, n) ==
    /\ stateFile = file
    /\ argv = args
    /\ arg_restart = FALSE
    /\ arg_duration = 0
    /\ irq = FALSE
    /\ saved_state = Zero
    /\ timer_duration = Zero
    /\ was_interrupted = FALSE
    /\ was_continued = FALSE
    /\ bar = 0
    /\ elapsed = 0
    /\ pc = "boot"
    /\ exit_code = NotExited
    /\ panic_msg = ""
    /\ notifications = 0
    /\ writes = 0
    /\ save_failed = FALSE
    /\ runs = n
    /\ prev_run = "none"
    /\ ticks = 0
    /\ irq_at_start = FALSE
    /\ ticks_after_irq = 0
    /\ flag_reads = 0

Init == \E f \in SmallFiles, a \in SmallArgv : ProcessStart(f, a, 1)

InitDuration == \E f \in WideFiles, a \in WideArgv : ProcessStart(f, a, 1)

\* a panic unwinds main: diagnostic on stderr, exit status 101
Panic(msg) ==
    /\ pc' = "panicked"
    /\ exit_code' = PanicExitCode
    /\ panic_msg' = msg

\* the handler is installed
Alive == pc \notin {"boot", "exited", "panicked"}

\* main, lines 145-160: the log sink, the flag and the Ctrl-C handler
StartMain ==
    /\ pc = "boot"
    /\ UNCHANGED <<prev_run, ticks, irq_at_start, ticks_after_irq, flag_reads>>
    /\ irq' = FALSE
    /\ \/ Panic("unwrap on Err: io::Error (log file)")
       \/ Panic("Error setting Ctrl-C handler")
       \/ pc' = "load" /\ UNCHANGED <<exit_code, panic_msg>>
    /\ UNCHANGED <<stateFile, argv, arg_restart, arg_duration, saved_state, timer_duration,
                   was_interrupted, was_continued, bar, elapsed, notifications,
                   writes, save_failed, runs>>

\* the handler closure, lines 157-159
CtrlC ==
    /\ Alive
    /\ UNCHANGED <<prev_run, ticks, irq_at_start, ticks_after_irq, flag_reads>>
    /\ irq' = TRUE
    /\ UNCHANGED <<stateFile, argv, arg_restart, arg_duration, saved_state, timer_duration,
                   was_interrupted, was_continued, bar, elapsed, pc, exit_code,
                   panic_msg, notifications, writes, save_failed, runs>>

\* main::get_saved_state, lines 133-143 and 162-165
GetSavedState ==
    /\ pc = "load"
    /\ UNCHANGED <<prev_run, ticks, irq_at_start, ticks_after_irq, flag_reads>>
    /\ \E open_ok \in BOOLEAN :
        IF stateFile.exists /\ open_ok
        THEN LET parsed == FromJson(stateFile.content) IN
             IF parsed.ok
             THEN /\ saved_state' = parsed.value
                  /\ pc' = "args"
                  /\ UNCHANGED <<exit_code, panic_msg>>
             ELSE /\ Panic("error while reading json")
                  /\ UNCHANGED saved_state
        ELSE /\ saved_state' = Zero
             /\ pc' = "args"
             /\ UNCHANGED <<exit_code, panic_msg>>
    /\ UNCHANGED <<stateFile, argv, arg_restart, arg_duration, irq, timer_duration,
                   was_interrupted, was_continued, bar, elapsed, notifications,
                   writes, save_failed, runs>>

\* main, lines 167-199: the options, the duration parsed and printed, PomApp
ParseArgs ==
    /\ pc = "args"
    /\ UNCHANGED <<prev_run, ticks, irq_at_start, ticks_after_irq, flag_reads>>
    /\ LET duration == ParseI32(DurationText(argv)) IN
       IF ~duration.ok
       THEN /\ Panic("unwrap on Err: ParseIntError")
            /\ UNCHANGED <<arg_restart, arg_duration>>
       ELSE \/ /\ Panic("failed printing to stdout")
               /\ UNCHANGED <<arg_restart, arg_duration>>
            \/ /\ arg_restart' = argv.r
               /\ arg_duration' = duration.value
               /\ pc' = "select"
               /\ UNCHANGED <<exit_code, panic_msg>>
    /\ UNCHANGED <<stateFile, argv, irq, saved_state, timer_duration,
                   was_interrupted, was_continued, bar, elapsed, notifications,
                   writes, save_failed, runs>>

\* variant: a restart resets the state file when the duration is decided
ChooseDuration_ClearsOnRestart ==
    /\ pc = "select"
    /\ irq_at_start' = irq
    /\ UNCHANGED <<prev_run, ticks, ticks_after_irq, flag_reads>>
    /\ \E overflow_checks \in BOOLEAN :
        LET r == SelectDuration(saved_state, arg_restart, arg_duration, overflow_checks) IN
        IF r.ok
        THEN /\ timer_duration' = r.secs
             /\ was_continued' = r.continued
             /\ pc' = "while"
             /\ UNCHANGED <<exit_code, panic_msg>>
        ELSE /\ Panic(r.msg)
             /\ UNCHANGED <<timer_duration, was_continued>>
    /\ was_interrupted' = FALSE
    /\ bar' = 0
    /\ elapsed' = 0
    /\ stateFile' = IF arg_restart THEN FileWith(ToJson(Zero)) ELSE stateFile
    /\ UNCHANGED <<argv, arg_restart, arg_duration, irq, saved_state,
                   notifications, writes, save_failed, runs>>

\* run_timer, lines 54-91: the duration decision, the bar and the start instant
ChooseDuration ==
    /\ pc = "select"
    /\ irq_at_start' = irq
    /\ UNCHANGED <<prev_run, ticks, ticks_after_irq, flag_reads>>
    /\ \E overflow_checks \in BOOLEAN :
        LET r == SelectDuration(saved_state, arg_restart, arg_duration, overflow_checks) IN
        IF r.ok
        THEN /\ timer_duration' = r.secs
             /\ was_continued' = r.continued
             /\ pc' = "while"
             /\ UNCHANGED <<exit_code, panic_msg>>
        ELSE /\ Panic(r.msg)
             /\ UNCHANGED <<timer_duration, was_continued>>
    /\ was_interrupted' = FALSE
    /\ bar' = 0
    /\ elapsed' = 0
    /\ UNCHANGED <<stateFile, argv, arg_restart, arg_duration, irq, saved_state,
                   notifications, writes, save_failed, runs>>

\* variant: the loop runs on elapsed time alone
LoopCondition_IgnoresFlag == elapsed < FromSecs(timer_duration)

\* variant: the loop condition consults the flag itself
LoopCondition_ChecksFlag ==
    elapsed < FromSecs(timer_duration) /\ ~was_interrupted /\ ~irq

\* the loop condition, line 93
LoopCondition == elapsed < FromSecs(timer_duration) /\ ~was_interrupted

\* ProgressBar::new(timer_duration.as_secs()), line 69: the length of the bar
BarLength == BigToNat(timer_duration)

\* lines 93 and 101: the loop is entered once more, or it is left and
\* bar.finish_and_clear() moves the bar to its length
LoopTest ==
    /\ pc = "while"
    /\ UNCHANGED <<prev_run, ticks, irq_at_start, ticks_after_irq, flag_reads>>
    /\ IF LoopCondition
       THEN pc' = "sleep" /\ UNCHANGED bar
       ELSE pc' = "stopped" /\ bar' = BarLength
    /\ UNCHANGED <<stateFile, argv, arg_restart, arg_duration, irq, saved_state, timer_duration,
                   was_interrupted, was_continued, elapsed, exit_code, panic_msg,
                   notifications, writes, save_failed, runs>>

\* lines 94-95: sleep for at least one second, advance the bar
SleepTick ==
    /\ pc = "sleep"
    /\ ticks_after_irq' = IF irq THEN ticks_after_irq + 1 ELSE ticks_after_irq
    /\ UNCHANGED <<prev_run, irq_at_start, flag_reads>>
    /\ \E over \in 0..MaxOvershoot : elapsed' = elapsed + Res + over
    /\ bar' = bar + 1
    /\ ticks' = ticks + 1
    /\ pc' = "readflag"
    /\ UNCHANGED <<stateFile, argv, arg_restart, arg_duration, irq, saved_state, timer_duration,
                   was_interrupted, was_continued, exit_code, panic_msg,
                   notifications, writes, save_failed, runs>>

\* variant: the load takes the flag and clears it
ReadFlag_ClearsFlag ==
    /\ pc = "readflag"
    /\ flag_reads' = flag_reads + 1
    /\ UNCHANGED <<prev_run, ticks, irq_at_start, ticks_after_irq>>
    /\ was_interrupted' = IF irq THEN TRUE ELSE was_interrupted
    /\ irq' = FALSE
    /\ pc' = "while"
    /\ UNCHANGED <<stateFile, argv, arg_restart, arg_duration, saved_state, timer_duration,
                   was_continued, bar, elapsed, exit_code, panic_msg,
                   notifications, writes, save_failed, runs>>

\* lines 96-98: read the flag
ReadFlag ==
    /\ pc = "readflag"
    /\ flag_reads' = flag_reads + 1
    /\ UNCHANGED <<prev_run, ticks, irq_at_start, ticks_after_irq>>
    /\ was_interrupted' = IF irq THEN TRUE ELSE was_interrupted
    /\ pc' = "while"
    /\ UNCHANGED <<stateFile, argv, arg_restart, arg_duration, irq, saved_state, timer_duration,
                   was_continued, bar, elapsed, exit_code, panic_msg,
                   notifications, writes, save_failed, runs>>

\* what a write that fails part-way can leave of `text`: any of its proper
\* prefixes, cut between two tokens or inside the field name
WrittenBeforeFailure(text) ==
    {SubSeq(text, 1, n) : n \in 0..(Len(text) - 1)} \cup {<<"{", "\"seconds_">>}

\* variant: a failed write is ignored and the run goes on
SaveState_Swallow(secs_remaining) ==
    \/ /\ save_failed' = TRUE
       /\ pc' = "notify"
       /\ UNCHANGED <<stateFile, writes, exit_code, panic_msg>>
    \/ /\ stateFile' = FileWith(ToJson(secs_remaining))
       /\ writes' = writes + 1
       /\ pc' = "notify"
       /\ UNCHANGED <<exit_code, panic_msg, save_failed>>

\* PomApp::save_state, lines 39-46: File::create truncates, write! fills
SaveState(secs_remaining) ==
    \/ /\ Panic("cannot create state file")
       /\ save_failed' = TRUE
       /\ UNCHANGED <<stateFile, writes>>
    \/ /\ \E written \in WrittenBeforeFailure(ToJson(secs_remaining)) :
              stateFile' = FileWith(written)
       /\ Panic("error writing to state file")
       /\ save_failed' = TRUE
       /\ UNCHANGED writes
    \/ /\ stateFile' = FileWith(ToJson(secs_remaining))
       /\ writes' = writes + 1
       /\ pc' = "notify"
       /\ UNCHANGED <<exit_code, panic_msg, save_failed>>

\* run_timer::_info_and_print, lines 49-52: println! panics when stdout
\* cannot be written, and then nothing after it is executed
InfoAndPrintFails ==
    /\ Panic("failed printing to stdout")
    /\ UNCHANGED <<stateFile, writes, save_failed>>

\* variant: the remaining time is taken from the ticks counted
TimeRemaining_Ticks(now) ==
    [ok |-> TRUE, steps |-> FromSecs(timer_duration) - ticks * Res]

\* variant: the elapsed time is not subtracted
TimeRemaining_Whole(now) ==
    [ok |-> TRUE, steps |-> FromSecs(timer_duration)]

\* timer_duration - start.elapsed(), line 104: Duration subtraction panics
\* when the result would be negative
TimeRemaining(now) ==
    LET total == FromSecs(timer_duration) IN
    IF now > total THEN [ok |-> FALSE, steps |-> 0]
    ELSE [ok |-> TRUE, steps |-> total - now]

\* lines 103-111: the interrupted branch
ReportInterrupted ==
    /\ pc = "stopped"
    /\ UNCHANGED <<prev_run, ticks, irq_at_start, ticks_after_irq, flag_reads>>
    /\ was_interrupted
    /\ \E over \in 0..MaxOvershoot :
        LET time_remaining == TimeRemaining(elapsed + over) IN
        /\ elapsed' = elapsed + over
        /\ IF time_remaining.ok
           THEN \/ InfoAndPrintFails
                \/ SaveState(NatToBig(AsSecs(time_remaining.steps)))
           ELSE /\ Panic("overflow when subtracting durations")
                /\ UNCHANGED <<stateFile, writes, save_failed>>
    /\ UNCHANGED <<argv, arg_restart, arg_duration, irq, saved_state, timer_duration,
                   was_interrupted, was_continued, bar, notifications, runs>>

\* variant: the finished branch saves the duration of the run
FinishedSecs_Duration == timer_duration

\* the value the finished branch saves, line 114
FinishedSecs == Zero

\* variant: the toast is attempted before the state is saved
ReportFinished_ToastFirst ==
    /\ pc = "stopped"
    /\ UNCHANGED <<prev_run, ticks, irq_at_start, ticks_after_irq, flag_reads>>
    /\ ~was_interrupted
    /\ \/ InfoAndPrintFails
       \/ /\ Panic("unable to toast")
          /\ UNCHANGED <<stateFile, writes, save_failed>>
       \/ SaveState(FinishedSecs)
    /\ UNCHANGED <<argv, arg_restart, arg_duration, irq, saved_state, timer_duration,
                   was_interrupted, was_continued, bar, elapsed, notifications, runs>>

\* lines 112-115: the finished branch
ReportFinished ==
    /\ pc = "stopped"
    /\ UNCHANGED <<prev_run, ticks, irq_at_start, ticks_after_irq, flag_reads>>
    /\ ~was_interrupted
    /\ \/ InfoAndPrintFails
       \/ SaveState(FinishedSecs)
    /\ UNCHANGED <<argv, arg_restart, arg_duration, irq, saved_state, timer_duration,
                   was_interrupted, was_continued, bar, elapsed, notifications, runs>>

\* variant: the toast is shown whatever the outcome
ShouldNotify_Always == TRUE

\* the toast is shown exactly when the run was not interrupted, line 119
ShouldNotify == ~was_interrupted

\* lines 117-127 and the return from main: stdout is flushed, then the toast
Finish ==
    /\ pc = "notify"
    /\ UNCHANGED <<prev_run, ticks, irq_at_start, ticks_after_irq, flag_reads>>
    /\ \/ /\ Panic("unwrap on Err: io::Error (stdout flush)")
          /\ UNCHANGED notifications
       \/ IF ShouldNotify
          THEN \/ /\ notifications' = notifications + 1
                  /\ pc' = "exited"
                  /\ exit_code' = 0
                  /\ UNCHANGED panic_msg
               \/ /\ Panic("unable to toast")
                  /\ UNCHANGED notifications
          ELSE /\ pc' = "exited"
               /\ exit_code' = 0
               /\ UNCHANGED <<panic_msg, notifications>>
    /\ UNCHANGED <<stateFile, argv, arg_restart, arg_duration, irq, saved_state, timer_duration,
                   was_interrupted, was_continued, bar, elapsed, writes, save_failed, runs>>

\* how a process that has ended did end: a terminal state of the run, or the
\* diagnostic of its panic
Outcome ==
    IF pc = "exited" THEN (IF was_interrupted THEN "interrupted" ELSE "completed")
    ELSE panic_msg

\* the program is invoked again on the state file the last process left
NextRun ==
    /\ pc \in {"exited", "panicked"}
    /\ runs < MaxRuns
    /\ argv' \in SmallArgv
    /\ arg_restart' = FALSE
    /\ arg_duration' = 0
    /\ irq' = FALSE
    /\ saved_state' = Zero
    /\ timer_duration' = Zero
    /\ was_interrupted' = FALSE
    /\ was_continued' = FALSE
    /\ bar' = 0
    /\ elapsed' = 0
    /\ pc' = "boot"
    /\ exit_code' = NotExited
    /\ panic_msg' = ""
    /\ notifications' = 0
    /\ writes' = 0
    /\ save_failed' = FALSE
    /\ runs' = runs + 1
    /\ prev_run' = Outcome
    /\ ticks' = 0
    /\ irq_at_start' = FALSE
    /\ ticks_after_irq' = 0
    /\ flag_reads' = 0
    /\ UNCHANGED stateFile

Next ==
    \/ StartMain
    \/ CtrlC
    \/ GetSavedState
    \/ ParseArgs
    \/ ChooseDuration
    \/ LoopTest
    \/ SleepTick
    \/ ReadFlag
    \/ ReportInterrupted
    \/ ReportFinished
    \/ Finish
    \/ NextRun

Spec == Init /\ [][Next]_vars

\* the duration decision alone, over the whole range of its inputs
NextDuration ==
    \/ StartMain
    \/ GetSavedState
    \/ ParseArgs
    \/ ChooseDuration

SpecDuration == InitDuration /\ [][NextDuration]_vars

----------------------------------------------------------------------------
(* Readings of the state used by the properties. *)

\* get_saved_state would return on the state file as it is now: there is no
\* file, or its text is a SavedState
Loadable == ~stateFile.exists \/ FromJson(stateFile.content).ok

Unloadable == 0 - 1

\* what get_saved_state would read from the state file as it is now:
\* 0 without a file, the saved value of a SavedState text, and no value at
\* all (Unloadable) for a text on which the reader panics
PersistedSecs ==
    IF ~stateFile.exists THEN 0
    ELSE IF FromJson(stateFile.content).ok THEN BigToNat(FromJson(stateFile.content).value)
    ELSE Unloadable

DurationSecs == BigToNat(timer_duration)

\* panics on standard output: the environment's, not the timer's
OutputPanics ==
    {"failed printing to stdout", "unwrap on Err: io::Error (stdout flush)"}

\* the run has left the tick loop as interrupted and run its branch to the
\* end, with a file system and a standard output that work
InterruptedDone ==
    /\ was_interrupted
    /\ pc \in {"notify", "exited", "panicked"}
    /\ ~save_failed
    /\ panic_msg \notin OutputPanics

\* the duration decision has been taken
Selected == pc = "while"

SelectionPanics ==
    {"attempt to negate with overflow", "unwrap on Err: TryFromIntError",
     "attempt to multiply with overflow"}

SelectionFailed == pc = "panicked" /\ panic_msg \in SelectionPanics

\* remainder and quotient of a digit sequence by a small divisor, by long division
RECURSIVE BigRem(_, _)
BigRem(b, m) ==
    IF b = <<>> THEN 0
    ELSE (BigRem(SubSeq(b, 1, Len(b) - 1), m) * 10 + b[Len(b)]) % m

RECURSIVE BigQuot(_, _)
BigQuot(b, m) ==
    IF b = <<>> THEN 0
    ELSE BigQuot(SubSeq(b, 1, Len(b) - 1), m) * 10
            + (BigRem(SubSeq(b, 1, Len(b) - 1), m) * 10 + b[Len(b)]) \div m

----------------------------------------------------------------------------
(* Properties. *)

\* C1: a run that stops as Interrupted with the flag observed at tick k of a
\* duration of D seconds writes exactly D - k to the state file.
C1_InterruptedPersistsDMinusK ==
    InterruptedDone => (writes = 1 /\ PersistedSecs = DurationSecs - ticks)

\* C2: loading never fails: whatever the state file holds, the process does
\* not end while reading it, and damaged content is read as 0 seconds.
C2_LoadNeverFails ==
    /\ panic_msg # "error while reading json"
    /\ (pc \in {"args", "select"} /\ ~FromJson(stateFile.content).ok) => saved_state = Zero

\* C3: the completion toast is shown exactly when the run completed: a run
\* that ends not interrupted has shown one toast, an interrupted run none.
C3_NotifyIffCompleted ==
    /\ notifications <= 1
    /\ was_interrupted => notifications = 0
    /\ (pc = "exited" /\ ~was_interrupted) => notifications = 1
    /\ notifications = 1 => (pc = "exited" /\ ~was_interrupted)

C3_Witness ==
    /\ pc = "exited"
    /\ ~was_interrupted
    /\ notifications = 1
    /\ ticks >= 2

\* C4: when the loop ends on elapsed >= duration with the flag not observed,
\* the run takes the finished branch and the state file holds 0 seconds.
C4_CompletionPersistsZero ==
    /\ (pc = "stopped" /\ ~was_interrupted) => elapsed >= FromSecs(timer_duration)
    /\ (pc \in {"notify", "exited"} /\ ~was_interrupted) =>
           /\ writes = 1
           /\ stateFile = FileWith(ToJson(Zero))
           /\ PersistedSecs = 0
    /\ (~was_interrupted /\ writes = 1) => PersistedSecs = 0

C4_Witness ==
    /\ pc = "exited"
    /\ ~was_interrupted
    /\ DurationSecs = MaxSecs
    /\ irq
    /\ PersistedSecs = 0

\* C5: with a positive saved value and no restart, the duration of the run is
\* the saved value, whatever duration is requested, and the run is continued.
C5_ResumeFidelity ==
    ((Selected \/ SelectionFailed) /\ BigLess(Zero, saved_state) /\ ~arg_restart) =>
        /\ Selected
        /\ timer_duration = saved_state
        /\ saved_state = FromJson(stateFile.content).value
        /\ was_continued

C5_Witness ==
    /\ Selected
    /\ saved_state = U64Max
    /\ ~arg_restart
    /\ arg_duration = I32Min
    /\ timer_duration = U64Max

\* C6: with restart the duration is a function of the requested duration
\* alone: minutes as seconds, or the literal magnitude, whatever was saved.
C6_RestartIgnoresSaved ==
    /\ (Selected /\ arg_restart) =>
           /\ ~was_continued
           /\ arg_duration # I32Min
           /\ IF arg_duration > 0
              THEN BigRem(timer_duration, SecsPerMinute) = 0
                   /\ BigQuot(timer_duration, SecsPerMinute) = arg_duration
              ELSE timer_duration = NatToBig(0 - arg_duration)
    /\ (SelectionFailed /\ arg_restart) => arg_duration = I32Min

C6_Witness ==
    /\ Selected
    /\ arg_restart
    /\ saved_state = NatToBig(1490)
    /\ arg_duration = 25
    /\ timer_duration = NatToBig(1500)

\* C7: for every non-positive requested duration, when no saved value is
\* resumed, the decision succeeds and the duration is its magnitude.
C7_NonPositiveIsMagnitude ==
    ((Selected \/ SelectionFailed) /\ arg_duration <= 0 /\ ~Resumes(saved_state, arg_restart)) =>
        /\ Selected
        /\ timer_duration = IF arg_duration = I32Min
                            THEN <<2, 1, 4, 7, 4, 8, 3, 6, 4, 8>>
                            ELSE NatToBig(0 - arg_duration)

\* C8: for every positive requested duration, when no saved value is resumed,
\* the decision succeeds and the duration is sixty times the request.
C8_PositiveIsMinutes ==
    ((Selected \/ SelectionFailed) /\ arg_duration > 0 /\ ~Resumes(saved_state, arg_restart)) =>
        /\ Selected
        /\ BigRem(timer_duration, SecsPerMinute) = 0
        /\ BigQuot(timer_duration, SecsPerMinute) = arg_duration
        /\ BigLeq(timer_duration, U64Max)

C8_Witness ==
    /\ Selected
    /\ arg_duration = I32Max
    /\ timer_duration = <<1, 2, 8, 8, 4, 9, 0, 1, 8, 8, 2, 0>>

\* C9: a run that ends Interrupted leaves a value greater than 0 in the state
\* file; 0 is left only by a run that finished.
C9_InterruptedPersistsPositive ==
    (InterruptedDone /\ writes = 1) => PersistedSecs > 0

\* C10: a failed save ends the process with a panic: non-zero exit status, a
\* diagnostic, no toast; a process that returns from main exits 0 and saved.
C10_SaveFailureFatal ==
    /\ save_failed =>
           /\ pc = "panicked"
           /\ exit_code # 0
           /\ panic_msg \in {"cannot create state file", "error writing to state file"}
           /\ notifications = 0
    /\ pc = "exited" => (exit_code = 0 /\ ~save_failed /\ writes = 1)
    /\ pc = "panicked" => exit_code = PanicExitCode

C10_Witness ==
    /\ save_failed
    /\ ~was_interrupted
    /\ pc = "panicked"
    /\ DurationSecs > 0

\* C11: a saved 0 reads back as 0, and the run that follows a completed run,
\* without restart, decides as a run without a state file does: not
\* continued, its duration the requested one.
C11_SavedZeroIsFresh ==
    /\ (writes = 1 /\ ~was_interrupted) =>
           FromJson(stateFile.content) = [ok |-> TRUE, value |-> Zero]
    /\ (prev_run = "completed" /\ writes = 0) =>
           /\ panic_msg # "error while reading json"
           /\ pc \notin {"boot", "load"} => saved_state = Zero
           /\ (pc \notin {"boot", "load", "args", "select", "panicked"} /\ ~arg_restart) =>
                  /\ ~was_continued
                  /\ timer_duration = NatToBig(0 - arg_duration)

C11_Witness ==
    /\ prev_run = "completed"
    /\ ~arg_restart
    /\ arg_duration = 0 - MaxSecs
    /\ pc = "sleep"
    /\ ticks = 1
    /\ timer_duration = NatToBig(MaxSecs)

\* C12: once the tick loop has stopped and the branch of the run has been
\* executed, the run is in one of its two terminal states and has written the
\* state file exactly once (a failing write of the file or of standard output
\* set aside).
C12_OneTerminalStateOneWrite ==
    /\ writes <= 1
    /\ (pc \in {"notify", "exited"}
           \/ (pc = "panicked" /\ ticks > 0 /\ ~save_failed /\ panic_msg \notin OutputPanics))
           => writes = 1
    /\ (pc = "panicked" /\ ~save_failed /\ panic_msg \notin OutputPanics \cup {"unable to toast"})
           => ticks = 0

\* C13: once the handler has set the flag, the loop begins at most one more
\* sleep: the load that follows that sleep sets was_interrupted, and the loop
\* sleeps no more.
C13_ObservedWithinOneTick ==
    /\ ticks_after_irq <= 1
    /\ (ticks_after_irq = 1 /\ pc # "readflag") => was_interrupted
    /\ was_interrupted => pc \notin {"sleep", "readflag"}

C13_Witness ==
    /\ ~irq_at_start
    /\ ticks_after_irq = 1
    /\ was_interrupted
    /\ pc = "stopped"
    /\ ticks = 2
    /\ DurationSecs > 2

\* C14: the value an interrupted run saves is the duration minus the time
\* elapsed on the clock since `start`, in whole seconds, however many ticks
\* were counted.
C14_RemainingFromClock ==
    (was_interrupted /\ writes = 1) =>
        /\ PersistedSecs * Res <= FromSecs(timer_duration) - elapsed
        /\ FromSecs(timer_duration) - elapsed < (PersistedSecs + 1) * Res

C14_Witness ==
    /\ was_interrupted
    /\ writes = 1
    /\ AsSecs(elapsed) > ticks
    /\ PersistedSecs = DurationSecs - AsSecs(elapsed)
    /\ PersistedSecs < DurationSecs - ticks

\* C15: the state file is changed by nothing but the save at the end of the
\* run (a restart does not touch it when the duration is decided), and an
\* interrupted restart run leaves in it the remaining time of the new run.
C15_RestartKeepsFileUntilSave ==
    /\ [][stateFile' # stateFile => (pc = "stopped" /\ writes = 0)]_vars
    /\ []((arg_restart /\ was_interrupted /\ writes = 1) =>
              /\ ~was_continued
              /\ timer_duration = NatToBig(0 - arg_duration)
              /\ stateFile =
                     FileWith(ToJson(NatToBig(AsSecs(FromSecs(timer_duration) - elapsed)))))

C15_Witness ==
    /\ arg_restart
    /\ BigLess(Zero, saved_state)
    /\ was_interrupted
    /\ writes = 1
    /\ PersistedSecs > 0
    /\ PersistedSecs # BigToNat(saved_state)

\* everything but the flag
NonFlagVars ==
    <<stateFile, argv, arg_restart, arg_duration, saved_state, timer_duration,
      was_interrupted, was_continued, bar, elapsed, pc, exit_code, panic_msg,
      notifications, writes, save_failed, runs,
      prev_run, ticks, irq_at_start, ticks_after_irq, flag_reads>>

\* C16: the flag starts false; within a process it changes only from false
\* to true, in a step of the handler that changes nothing else; the loop
\* loads it once per tick, and only that load sets was_interrupted.
C16_FlagSingleWriterSingleReader ==
    /\ [](pc = "boot" => ~irq)
    /\ [][(irq' # irq /\ pc' # "boot") =>
              (~irq /\ irq' /\ Alive /\ UNCHANGED NonFlagVars)]_vars
    /\ [](flag_reads = IF pc = "readflag" THEN ticks - 1 ELSE ticks)
    /\ [][(~was_interrupted /\ was_interrupted') => (pc = "readflag" /\ irq)]_vars

C16_Witness ==
    /\ pc = "exited"
    /\ irq
    /\ was_interrupted
    /\ ticks = 2
    /\ flag_reads = 2

\* C17: a run is interrupted only after a full tick, so the value it saves is
\* smaller than its duration; a resumed run that is interrupted leaves less
\* than it found, and no resumed run ever leaves a value greater than the one
\* it found.
C17_InterruptedResumeDecreases ==
    /\ was_interrupted => (ticks >= 1 /\ elapsed >= Res)
    /\ (was_interrupted /\ writes = 1) => PersistedSecs < DurationSecs
    /\ (was_interrupted /\ writes = 1 /\ was_continued) =>
           PersistedSecs < BigToNat(saved_state)
    /\ (was_continued /\ Loadable) => PersistedSecs <= BigToNat(saved_state)

C17_Witness ==
    /\ prev_run = "interrupted"
    /\ was_continued
    /\ saved_state = NatToBig(2)
    /\ was_interrupted
    /\ pc = "exited"
    /\ PersistedSecs = 1

\* C18: the toast is attempted only after 0 has been saved: a process that
\* panics in the toast leaves {"seconds_remaining":0}, and the process that
\* follows it reads 0 and is not continued.
C18_SavedBeforeToast ==
    /\ panic_msg = "unable to toast" =>
           (writes = 1 /\ stateFile = FileWith(ToJson(Zero)))
    /\ notifications = 1 => (writes = 1 /\ PersistedSecs = 0)
    /\ (prev_run = "unable to toast" /\ writes = 0) =>
           /\ panic_msg # "error while reading json"
           /\ pc \notin {"boot", "load"} => saved_state = Zero
           /\ pc \notin {"boot", "load", "args", "select", "panicked"} => ~was_continued

C18_Witness ==
    /\ prev_run = "unable to toast"
    /\ ~arg_restart
    /\ arg_duration < 0
    /\ pc = "sleep"
    /\ ~was_continued
    /\ PersistedSecs = 0

\* C19: the flag is loaded only after a sleep.  A run of duration 0 sleeps
\* never and finishes (0 saved, toast shown) whatever the flag; a run of
\* positive duration that starts with the flag set sleeps exactly once and
\* stops as interrupted.
C19_FlagCheckedAfterSleep ==
    /\ (pc \in {"while", "sleep"} /\ ticks = 0) => ~was_interrupted
    /\ pc = "sleep" => DurationSecs > 0
    /\ (DurationSecs = 0 /\ pc \in {"stopped", "notify", "exited"}) =>
           (ticks = 0 /\ flag_reads = 0 /\ ~was_interrupted)
    /\ (DurationSecs = 0 /\ pc = "exited") => (notifications = 1 /\ PersistedSecs = 0)
    /\ (irq_at_start /\ DurationSecs > 0 /\ pc \in {"stopped", "notify", "exited"}) =>
           (was_interrupted /\ ticks = 1 /\ elapsed >= Res)

C19_Witness ==
    /\ irq_at_start
    /\ DurationSecs = 0
    /\ pc = "exited"
    /\ ticks = 0
    /\ notifications = 1

====
